---- MODULE Spec2Model ----
\* Model of src/src/lib.rs (shared_memory::SharedMemory), descriptor/unlink
\* (linux) backend: create / open / write_data / read_data / name / Drop,
\* run by several processes against one system namespace of named objects.
\*
\* A region is the first `size` bytes of the object's backing pages.  The
\* kernel backs an object by whole pages, so bytes between `size` and the end
\* of the last page are accessible memory outside the region.
\* Arithmetic on usize wraps in a release build and panics in a debug build;
\* both builds are modelled (variable `build`).
EXTENDS Integers, Sequences, FiniteSets, TLC

\* ---------------------------------------------------------------- bounds
MaxCap    == 4      \* largest capacity passed to create/open
MaxLen    == 3      \* longest payload passed to write_data
MaxObj    == 2      \* named objects created over a run
MaxFds    == 2      \* descriptors a process may hold before it stops acquiring
PageSize  == 4      \* bytes per backing page

Procs  == {1, 2}
Names  == {"a"}
\* the code only tells a zero byte from a non-zero one
Byte   == {0, 1}
Caps   == {-1, 0, 2, MaxCap}

\* usize modulus, scaled to the checker's integer range (usize at lib.rs:199)
UsizeMod == 2^30

\* ---------------------------------------------------------------- helpers
Min(a, b) == IF a < b THEN a ELSE b

Zeros(n) == [i \in 1..n |-> 0]

\* bytes of backing store the kernel gives an object truncated to n bytes
RoundUp(n) == ((n + PageSize - 1) \div PageSize) * PageSize

SeqsUpTo(n) == UNION {[1..k -> Byte] : k \in 0..n}

Payloads == SeqsUpTo(MaxLen)

\* the payloads of the lifecycle runs: one that fits, one longer than every capacity below MaxLen
LifePayloads == {<<1>>, [i \in 1..MaxLen |-> 1]}

\* a - b on usize in a release build (wrapping)
WrapSub(a, b) == IF a >= b THEN a - b ELSE UsizeMod - (b - a)

\* `x as usize` for an i32 x
AsUsize(x) == IF x >= 0 THEN x ELSE UsizeMod + x

VARIABLES build, ns, mem, seg, pc, arg, fds, ev, dropped

vars == <<build, ns, mem, seg, pc, arg, fds, ev, dropped>>

\* struct SharedMemory { size, name, p_buf, is_create } plus the ownership
\* state of the CString behind `name` (owned by the struct after into_raw)
NoSeg == [state |-> "Unopened", size |-> 0, name |-> "none", obj |-> 0,
          is_create |-> FALSE, nameOwned |-> FALSE]

\* `old` is history: the region as the write under way found it
NoArg == [name |-> "none", size |-> 0, fd |-> 0, obj |-> 0, data |-> <<>>, nfds0 |-> 0, old |-> <<>>]

NoEv == [proc |-> 0, op |-> "none", res |-> "none", name |-> "none", existed |-> FALSE, fd |-> 0,
        nfds0 |-> 0, data |-> <<>>, ret |-> <<>>, oob |-> FALSE]

Errors == {"EEXIST", "ENOENT", "EINVAL", "ENOMEM"}

Init ==
    /\ build \in {"debug", "release"}
    /\ ns = [n \in Names |-> 0]
    /\ mem = [o \in 1..MaxObj |-> <<>>]
    /\ seg = [p \in Procs |-> NoSeg]
    /\ pc = [p \in Procs |-> "idle"]
    /\ arg = [p \in Procs |-> NoArg]
    /\ fds = [p \in Procs |-> {}]
    /\ ev = NoEv
    /\ dropped = {}

\* lowest free descriptor number of process p
NewFd(p) == CHOOSE n \in 3..(3 + MaxFds) : n \notin fds[p] /\ \A m \in 3..(n - 1) : m \in fds[p]

CanAcquire(p) ==
    /\ pc[p] = "idle"
    /\ seg[p].state \in {"Unopened", "Released"}
    /\ Cardinality(fds[p]) < MaxFds

\* an object is reachable through its name, a mapping or a call under way
Reachable(o) ==
    \/ \E n \in Names : ns[n] = o
    \/ \E q \in Procs : seg[q].state = "Mapped" /\ seg[q].obj = o
    \/ \E q \in Procs : pc[q] \in {"create_ftruncate", "create_mmap", "open_mmap"} /\ arg[q].obj = o

\* slots of the object table that hold no reachable object
FreeObjs == {o \in 1..MaxObj : ~Reachable(o)}

NewObj == CHOOSE o \in FreeObjs : \A o2 \in FreeObjs : o <= o2

\* the object table once process p has let go of its mapping and the namespace
\* is nsNew: an object that no name and no other mapping reaches is gone
StillUsed(o, nsNew, p) ==
    \/ \E n \in Names : nsNew[n] = o
    \/ \E q \in Procs \ {p} : seg[q].state = "Mapped" /\ seg[q].obj = o
    \/ \E q \in Procs \ {p} : pc[q] \in {"create_ftruncate", "create_mmap", "open_mmap"} /\ arg[q].obj = o

Release(m, nsNew, p) == [o \in 1..MaxObj |-> IF StillUsed(o, nsNew, p) THEN m[o] ELSE <<>>]

\* ------------------------------------------------------------------ create
\* shm_open without O_EXCL never reports an existing name
ShmOpenExcl_NoExcl(n) == "Ok"

\* shm_open(name, O_RDWR | O_CREAT | O_EXCL): fails EEXIST when the name is taken
ShmOpenExcl(n) == IF ns[n] # 0 THEN "EEXIST" ELSE "Ok"

CreateShmOpen(p, n, c) ==
    /\ CanAcquire(p)
    /\ IF ShmOpenExcl(n) # "Ok"
       THEN /\ ev' = [NoEv EXCEPT !.proc = p, !.op = "create", !.res = ShmOpenExcl(n), !.existed = (ns[n] # 0),
                                             !.name = n, !.nfds0 = Cardinality(fds[p])]
            /\ UNCHANGED <<build, ns, mem, seg, pc, arg, fds, dropped>>
       ELSE /\ FreeObjs # {}
            /\ ns' = [ns EXCEPT ![n] = NewObj]
            /\ mem' = [mem EXCEPT ![NewObj] = <<>>]
            /\ fds' = [fds EXCEPT ![p] = @ \cup {NewFd(p)}]
            /\ arg' = [arg EXCEPT ![p] = [NoArg EXCEPT !.name = n, !.size = c, !.fd = NewFd(p),
                                          !.obj = NewObj, !.nfds0 = Cardinality(fds[p])]]
            /\ pc' = [pc EXCEPT ![p] = "create_ftruncate"]
            /\ ev' = [NoEv EXCEPT !.proc = p, !.op = "create", !.res = "pending", !.name = n,
                                 !.existed = (ns[n] # 0), !.fd = NewFd(p), !.nfds0 = Cardinality(fds[p])]
            /\ UNCHANGED <<build, seg, dropped>>

\* an error return that forgets close(fd)
CloseOnError_Leak(p) == fds[p]

\* error return of create/open after the descriptor was obtained: close(fd)
CloseOnError(p) == fds[p] \ {arg[p].fd}

FailAcquire(p, op, err) ==
    /\ fds' = [fds EXCEPT ![p] = CloseOnError(p)]
    /\ ev' = [NoEv EXCEPT !.proc = p, !.op = op, !.res = err, !.name = arg[p].name,
                         !.fd = arg[p].fd, !.nfds0 = arg[p].nfds0]
    /\ pc' = [pc EXCEPT ![p] = "idle"]
    /\ arg' = [arg EXCEPT ![p] = NoArg]

\* ftruncate(fd, size as off_t): EINVAL for a negative length
CreateFtruncate(p) ==
    /\ pc[p] = "create_ftruncate"
    /\ IF arg[p].size < 0
       THEN /\ FailAcquire(p, "create", "EINVAL")
            /\ UNCHANGED <<build, ns, mem, seg, dropped>>
       ELSE /\ mem' = [mem EXCEPT ![arg[p].obj] = Zeros(RoundUp(arg[p].size))]
            /\ pc' = [pc EXCEPT ![p] = "create_mmap"]
            /\ ev' = [NoEv EXCEPT !.proc = p, !.op = "create", !.res = "pending", !.name = arg[p].name,
                                 !.fd = arg[p].fd, !.nfds0 = arg[p].nfds0]
            /\ UNCHANGED <<build, ns, seg, arg, fds, dropped>>

\* mmap(NULL, size as size_t, ..., MAP_SHARED, fd, 0): EINVAL for length 0,
\* ENOMEM for a negative i32 reinterpreted as size_t
MmapResult(c) == IF c = 0 THEN "EINVAL" ELSE IF c < 0 THEN "ENOMEM" ELSE "Ok"

CreateMmap(p) ==
    /\ pc[p] = "create_mmap"
    /\ IF MmapResult(arg[p].size) # "Ok"
       THEN /\ FailAcquire(p, "create", MmapResult(arg[p].size))
            /\ UNCHANGED <<build, ns, mem, seg, dropped>>
       ELSE /\ seg' = [seg EXCEPT ![p] = [state |-> "Mapped", size |-> arg[p].size, name |-> arg[p].name,
                                          obj |-> arg[p].obj, is_create |-> TRUE,
                                          nameOwned |-> TRUE]]
            /\ ev' = [NoEv EXCEPT !.proc = p, !.op = "create", !.res = "Ok", !.name = arg[p].name,
                                 !.fd = arg[p].fd, !.nfds0 = arg[p].nfds0]
            /\ pc' = [pc EXCEPT ![p] = "idle"]
            /\ arg' = [arg EXCEPT ![p] = NoArg]
            /\ dropped' = dropped \ {arg[p].name}
            /\ UNCHANGED <<build, ns, mem, fds>>

\* -------------------------------------------------------------------- open
\* shm_open(name, O_RDWR): fails ENOENT when the name is absent
ShmOpenExisting(n) == IF ns[n] = 0 THEN "ENOENT" ELSE "Ok"

OpenShmOpen(p, n, c) ==
    /\ CanAcquire(p)
    /\ IF ShmOpenExisting(n) # "Ok"
       THEN /\ ev' = [NoEv EXCEPT !.proc = p, !.op = "open", !.res = ShmOpenExisting(n),
                                             !.name = n, !.nfds0 = Cardinality(fds[p])]
            /\ UNCHANGED <<build, ns, mem, seg, pc, arg, fds, dropped>>
       ELSE /\ fds' = [fds EXCEPT ![p] = @ \cup {NewFd(p)}]
            /\ arg' = [arg EXCEPT ![p] = [NoArg EXCEPT !.name = n, !.size = c, !.fd = NewFd(p),
                                          !.obj = ns[n], !.nfds0 = Cardinality(fds[p])]]
            /\ pc' = [pc EXCEPT ![p] = "open_mmap"]
            /\ ev' = [NoEv EXCEPT !.proc = p, !.op = "open", !.res = "pending", !.name = n,
                                             !.fd = NewFd(p), !.nfds0 = Cardinality(fds[p])]
            /\ UNCHANGED <<build, ns, mem, seg, dropped>>

\* open that takes the size of the object as the capacity of the segment
OpenMmap_ObjectSize(p) ==
    /\ pc[p] = "open_mmap"
    /\ IF MmapResult(arg[p].size) # "Ok"
       THEN /\ FailAcquire(p, "open", MmapResult(arg[p].size))
            /\ UNCHANGED <<build, ns, mem, seg, dropped>>
       ELSE /\ seg' = [seg EXCEPT ![p] = [state |-> "Mapped", size |-> Len(mem[arg[p].obj]),
                                          name |-> arg[p].name,
                                          obj |-> arg[p].obj, is_create |-> FALSE,
                                          nameOwned |-> TRUE]]
            /\ ev' = [NoEv EXCEPT !.proc = p, !.op = "open", !.res = "Ok", !.name = arg[p].name,
                                 !.fd = arg[p].fd, !.nfds0 = arg[p].nfds0]
            /\ pc' = [pc EXCEPT ![p] = "idle"]
            /\ arg' = [arg EXCEPT ![p] = NoArg]
            /\ UNCHANGED <<build, ns, mem, fds, dropped>>

OpenMmap(p) ==
    /\ pc[p] = "open_mmap"
    /\ IF MmapResult(arg[p].size) # "Ok"
       THEN /\ FailAcquire(p, "open", MmapResult(arg[p].size))
            /\ UNCHANGED <<build, ns, mem, seg, dropped>>
       ELSE /\ seg' = [seg EXCEPT ![p] = [state |-> "Mapped", size |-> arg[p].size, name |-> arg[p].name,
                                          obj |-> arg[p].obj, is_create |-> FALSE,
                                          nameOwned |-> TRUE]]
            /\ ev' = [NoEv EXCEPT !.proc = p, !.op = "open", !.res = "Ok", !.name = arg[p].name,
                                 !.fd = arg[p].fd, !.nfds0 = arg[p].nfds0]
            /\ pc' = [pc EXCEPT ![p] = "idle"]
            /\ arg' = [arg EXCEPT ![p] = NoArg]
            /\ UNCHANGED <<build, ns, mem, fds, dropped>>

\* -------------------------------------------------------------- write_data
\* bytes of the backing store a segment of `sz` bytes on object o can touch
\* without a fault: its mapped pages that the object backs
Limit(sz, o) == Min(RoundUp(sz), Len(mem[o]))

\* ptr::copy_nonoverlapping(data, dest, data.len()), stopped at `lim`
CopyInto(m, data, lim) ==
    [i \in 1..Len(m) |-> IF i <= Len(data) /\ i <= lim THEN data[i] ELSE m[i]]

\* ptr::write_bytes(dest.add(from), 0, count), stopped at `lim`
FillZero(m, from, count, lim) ==
    [i \in 1..Len(m) |-> IF i > from /\ i <= from + count /\ i <= lim THEN 0 ELSE m[i]]

\* a guard that rejects only a payload longer than the region
WriteRejected_Longer(sz, n) == sz < n

\* let offset = self.size() as usize - data_size;  if offset < data_size { return }
WriteRejected(sz, n) == WrapSub(sz, n) < n

\* size as usize - data.len(), with size = self.size.checked_sub(data.len() as i32)
FillCount(sz, n) == WrapSub(AsUsize(sz - n), n)

\* the process is killed by a signal: the kernel unmaps and closes, no destructor runs
Killed(p, op, res, data, m) ==
    /\ mem' = Release(m, ns, p)
    /\ pc' = [pc EXCEPT ![p] = "dead"]
    /\ seg' = [seg EXCEPT ![p] = [NoSeg EXCEPT !.state = "Killed"]]
    /\ fds' = [fds EXCEPT ![p] = {}]
    /\ arg' = [arg EXCEPT ![p] = NoArg]
    /\ ev' = [NoEv EXCEPT !.proc = p, !.op = op, !.res = res, !.data = data, !.oob = TRUE]

\* the call panics: the thread starts unwinding
Panicked(p, op, data) ==
    /\ pc' = [pc EXCEPT ![p] = "unwinding"]
    /\ arg' = [arg EXCEPT ![p] = NoArg]
    /\ ev' = [NoEv EXCEPT !.proc = p, !.op = op, !.res = "Panic", !.data = data]
    /\ UNCHANGED <<seg, fds>>

\* write_data up to and including the copy of the payload
WriteCopy(p, data) ==
    LET sz == seg[p].size
        o  == seg[p].obj
        n  == Len(data)
        lim == Limit(sz, o)
    IN  /\ pc[p] = "idle"
        /\ seg[p].state = "Mapped"
        /\ UNCHANGED <<build, ns, dropped>>
        /\ IF n > sz /\ build = "debug"
           THEN /\ Panicked(p, "write", data)
                /\ UNCHANGED mem
           ELSE IF WriteRejected(sz, n)
           THEN /\ ev' = [NoEv EXCEPT !.proc = p, !.op = "write", !.res = "Rejected", !.data = data]
                /\ UNCHANGED <<mem, seg, pc, arg, fds>>
           ELSE IF n > lim
                   THEN Killed(p, "write", "Fault", data, [mem EXCEPT ![o] = CopyInto(@, data, lim)])
                   ELSE /\ mem' = [mem EXCEPT ![o] = CopyInto(@, data, lim)]
                        /\ pc' = [pc EXCEPT ![p] = "write_fill"]
                        /\ arg' = [arg EXCEPT ![p] = [NoArg EXCEPT !.data = data,
                                                      !.old = SubSeq(mem[o], 1, Min(sz, Len(mem[o])))]]
                        /\ ev' = [NoEv EXCEPT !.proc = p, !.op = "write", !.res = "pending", !.data = data]
                        /\ UNCHANGED <<seg, fds>>

\* the zero fill that ends write_data
WriteFill(p) ==
    LET sz == seg[p].size
        o  == seg[p].obj
        n  == Len(arg[p].data)
        lim == Limit(sz, o)
        cnt == FillCount(sz, n)
    IN  /\ pc[p] = "write_fill"
        /\ UNCHANGED <<build, ns, dropped>>
        /\ IF n + cnt > lim
           THEN Killed(p, "write", "Fault", arg[p].data, [mem EXCEPT ![o] = FillZero(@, n, cnt, lim)])
           ELSE /\ mem' = [mem EXCEPT ![o] = FillZero(@, n, cnt, lim)]
                /\ pc' = [pc EXCEPT ![p] = "idle"]
                /\ arg' = [arg EXCEPT ![p] = NoArg]
                /\ ev' = [NoEv EXCEPT !.proc = p, !.op = "write", !.res = "Ok", !.data = arg[p].data,
                                     !.oob = (n + cnt > sz)]
                /\ UNCHANGED <<seg, fds>>

\* --------------------------------------------------------------- read_data
\* the backward scan: the index of the last non-zero byte, -1 when idx passes 0
RECURSIVE Scan(_, _)
Scan(m, idx) == IF idx < 0 THEN -1 ELSE IF m[idx + 1] # 0 THEN idx ELSE Scan(m, idx - 1)

ReadOutcomes == {"Fault", "Empty", "Garbage"}

\* read_data that waits while a write by another process is under way
ReadData_Locked(p) ==
    LET sz == seg[p].size
        o  == seg[p].obj
        idx == Scan(mem[o], sz - 1)
    IN  /\ pc[p] = "idle"
        /\ seg[p].state = "Mapped"
        /\ \A q \in Procs : pc[q] # "write_fill"
        /\ UNCHANGED <<build, ns, dropped>>
        /\ IF sz > Limit(sz, o)
           THEN Killed(p, "read", "Fault", <<>>, mem)
           ELSE IF idx >= 0
           THEN /\ ev' = [NoEv EXCEPT !.proc = p, !.op = "read", !.res = "Ok",
                                                 !.ret = SubSeq(mem[o], 1, idx + 1)]
                /\ UNCHANGED <<mem, seg, pc, arg, fds>>
           ELSE IF build = "debug"
           THEN Panicked(p, "read", <<>>) /\ UNCHANGED mem
           ELSE \E out \in ReadOutcomes :
                  IF out = "Fault"
                  THEN Killed(p, "read", "Fault", <<>>, mem)
                  ELSE /\ ev' = [NoEv EXCEPT !.proc = p, !.op = "read", !.oob = TRUE,
                                          !.res = IF out = "Empty" THEN "Ok" ELSE "Garbage"]
                       /\ UNCHANGED <<mem, seg, pc, arg, fds>>

ReadData(p) ==
    LET sz == seg[p].size
        o  == seg[p].obj
        idx == Scan(mem[o], sz - 1)
    IN  /\ pc[p] = "idle"
        /\ seg[p].state = "Mapped"
        /\ UNCHANGED <<build, ns, dropped>>
        /\ IF sz > Limit(sz, o)
           THEN Killed(p, "read", "Fault", <<>>, mem)
           ELSE IF idx >= 0
           THEN /\ ev' = [NoEv EXCEPT !.proc = p, !.op = "read", !.res = "Ok",
                                                 !.ret = SubSeq(mem[o], 1, idx + 1)]
                /\ UNCHANGED <<mem, seg, pc, arg, fds>>
           ELSE IF build = "debug"
           THEN Panicked(p, "read", <<>>) /\ UNCHANGED mem
           ELSE \E out \in ReadOutcomes :
                  IF out = "Fault"
                  THEN Killed(p, "read", "Fault", <<>>, mem)
                  ELSE /\ ev' = [NoEv EXCEPT !.proc = p, !.op = "read", !.oob = TRUE,
                                          !.res = IF out = "Empty" THEN "Ok" ELSE "Garbage"]
                       /\ UNCHANGED <<mem, seg, pc, arg, fds>>

\* -------------------------------------------------------------------- name
NameOutcomes == {"Abort", "Garbage"}

\* CString::from_raw(self.name) takes the buffer over and frees it on return
Name(p) ==
    /\ pc[p] = "idle"
    /\ seg[p].state = "Mapped"
    /\ UNCHANGED <<build, ns, dropped>>
    /\ IF seg[p].nameOwned
       THEN /\ seg' = [seg EXCEPT ![p].nameOwned = FALSE]
            /\ ev' = [NoEv EXCEPT !.proc = p, !.op = "name", !.res = "Ok", !.name = seg[p].name]
            /\ UNCHANGED <<mem, pc, arg, fds>>
       ELSE \E out \in NameOutcomes :
              IF out = "Abort"
              THEN Killed(p, "name", "Abort", <<>>, mem)
              ELSE /\ ev' = [NoEv EXCEPT !.proc = p, !.op = "name", !.res = "Garbage"]
                   /\ UNCHANGED <<mem, seg, pc, arg, fds>>

\* -------------------------------------------------------------------- drop
\* the names shm_unlink(self.name) can act on: the stored name while the
\* buffer is owned, whatever the freed buffer holds afterwards
UnlinkTargets(p) ==
    IF ~seg[p].is_create THEN {"none"}
    ELSE IF seg[p].nameOwned THEN {seg[p].name}
    ELSE Names \cup {"none"}

Unlink(t) == [n \in Names |-> IF n = t THEN 0 ELSE ns[n]]

\* freeing a buffer that name() already freed: glibc aborts or the heap is silently corrupted
DropOutcomes(p) == IF seg[p].nameOwned THEN {"Ok"} ELSE {"DoubleFree", "Abort"}

\* munmap; shm_unlink(self.name) when is_create; CString::from_raw(self.name).
\* The descriptor obtained by shm_open is not stored in the struct and is not closed.
Drop(p) ==
    /\ pc[p] \in {"idle", "unwinding"}
    /\ seg[p].state = "Mapped"
    /\ \E t \in UnlinkTargets(p) :
         /\ ns' = Unlink(t)
         /\ mem' = Release(mem, Unlink(t), p)
    /\ seg' = [seg EXCEPT ![p] = [NoSeg EXCEPT !.state = "Released"]]
    /\ dropped' = IF seg[p].is_create THEN dropped \cup {seg[p].name} ELSE dropped
    /\ \E out \in DropOutcomes(p) :
         /\ ev' = [NoEv EXCEPT !.proc = p, !.op = "drop", !.name = seg[p].name, !.res = out]
         /\ IF pc[p] = "idle" /\ out # "Abort"
            THEN UNCHANGED <<pc, fds>>
            ELSE /\ pc' = [pc EXCEPT ![p] = "dead"]
                 /\ fds' = [fds EXCEPT ![p] = {}]
    /\ UNCHANGED <<build, arg>>

\* lifecycle runs: every operation, any number of acquisitions per process
\* (up to MaxFds), payloads from LifePayloads
Next ==
    \/ \E p \in Procs, n \in Names, c \in Caps : CreateShmOpen(p, n, c)
    \/ \E p \in Procs : CreateFtruncate(p)
    \/ \E p \in Procs : CreateMmap(p)
    \/ \E p \in Procs, n \in Names, c \in Caps : OpenShmOpen(p, n, c)
    \/ \E p \in Procs : OpenMmap(p)
    \/ \E p \in Procs, data \in LifePayloads : WriteCopy(p, data)
    \/ \E p \in Procs : WriteFill(p)
    \/ \E p \in Procs : ReadData(p)
    \/ \E p \in Procs : Name(p)
    \/ \E p \in Procs : Drop(p)

Spec == Init /\ [][Next]_vars

\* data runs: every operation, every payload, one acquisition per process
FirstUse(p) == fds[p] = {} /\ seg[p].state = "Unopened"

NextData ==
    \/ \E p \in Procs, n \in Names, c \in Caps : FirstUse(p) /\ CreateShmOpen(p, n, c)
    \/ \E p \in Procs : CreateFtruncate(p)
    \/ \E p \in Procs : CreateMmap(p)
    \/ \E p \in Procs, n \in Names, c \in Caps : FirstUse(p) /\ OpenShmOpen(p, n, c)
    \/ \E p \in Procs : OpenMmap(p)
    \/ \E p \in Procs, data \in Payloads : WriteCopy(p, data)
    \/ \E p \in Procs : WriteFill(p)
    \/ \E p \in Procs : ReadData(p)
    \/ \E p \in Procs : Name(p)
    \/ \E p \in Procs : Drop(p)

SpecData == Init /\ [][NextData]_vars

\* sharing runs: one acquisition per process, every payload, segments are
\* written and read and kept
NextShare ==
    \/ \E p \in Procs, n \in Names, c \in Caps : FirstUse(p) /\ CreateShmOpen(p, n, c)
    \/ \E p \in Procs : CreateFtruncate(p)
    \/ \E p \in Procs : CreateMmap(p)
    \/ \E p \in Procs, n \in Names, c \in Caps : FirstUse(p) /\ OpenShmOpen(p, n, c)
    \/ \E p \in Procs : OpenMmap(p)
    \/ \E p \in Procs, data \in Payloads : WriteCopy(p, data)
    \/ \E p \in Procs : WriteFill(p)
    \/ \E p \in Procs : ReadData(p)

SpecShare == Init /\ [][NextShare]_vars

\* contract runs: one acquisition per process, an open passes the capacity of
\* the creator's segment, a write passes a payload no longer than the segment
OpenAsCreated(n, c) ==
    \E q \in Procs :
        \/ seg[q].state = "Mapped" /\ seg[q].is_create /\ seg[q].name = n /\ seg[q].size = c
        \/ pc[q] \in {"create_ftruncate", "create_mmap"} /\ arg[q].name = n /\ arg[q].size = c

NextFit ==
    \/ \E p \in Procs, n \in Names, c \in Caps : FirstUse(p) /\ CreateShmOpen(p, n, c)
    \/ \E p \in Procs : CreateFtruncate(p)
    \/ \E p \in Procs : CreateMmap(p)
    \/ \E p \in Procs, n \in Names, c \in Caps : FirstUse(p) /\ OpenAsCreated(n, c) /\ OpenShmOpen(p, n, c)
    \/ \E p \in Procs : OpenMmap(p)
    \/ \E p \in Procs, data \in Payloads : Len(data) <= seg[p].size /\ WriteCopy(p, data)
    \/ \E p \in Procs : WriteFill(p)
    \/ \E p \in Procs : ReadData(p)
    \/ \E p \in Procs : Name(p)
    \/ \E p \in Procs : Drop(p)

SpecFit == Init /\ [][NextFit]_vars

\* ==================================================================== claims
RECURSIVE StripZeros(_)
StripZeros(P) == IF Len(P) = 0 THEN <<>>
                 ELSE IF P[Len(P)] # 0 THEN P
                 ELSE StripZeros(SubSeq(P, 1, Len(P) - 1))

Region(p) == SubSeq(mem[seg[p].obj], 1, Min(seg[p].size, Len(mem[seg[p].obj])))

\* the object behind p's segment has been sized to cover the region
Backed(p) == seg[p].size <= Len(mem[seg[p].obj])

WriteUnderWay == \E q \in Procs : pc[q] = "write_fill"

NoCrash == \A q \in Procs : pc[q] \notin {"dead", "unwinding"}

CreateInProgress(n) == \E q \in Procs : pc[q] \in {"create_ftruncate", "create_mmap"} /\ arg[q].name = n

\* C1: a write(P) with len(P) <= capacity that returned, followed at once by
\* read() on the same segment (whose object is sized), makes read() return P
\* without its trailing zeros.
C1_RoundTrip ==
    [][(/\ ev.op = "write"
        /\ ev.res \in {"Ok", "Rejected"}
        /\ seg[ev.proc].state = "Mapped"
        /\ Backed(ev.proc)
        /\ Len(ev.data) <= seg[ev.proc].size
        /\ ev'.proc = ev.proc
        /\ ev'.op = "read")
       => (ev'.res = "Ok" /\ ~ev'.oob /\ ev'.ret = StripZeros(ev.data))]_vars

\* C2: write(P) with len(P) > capacity on a segment whose object is sized
\* changes no byte inside or outside the region and returns TooLarge.
C2_TooLargeNoOp ==
    [][(/\ ev'.op = "write"
        /\ ev'.proc \in Procs
        /\ pc[ev'.proc] = "idle"
        /\ seg[ev'.proc].state = "Mapped"
        /\ Backed(ev'.proc)
        /\ Len(ev'.data) > seg[ev'.proc].size)
       => (mem' = mem /\ ev'.res = "TooLarge")]_vars

\* C3: read() by the creator right after its create, on a region that is all
\* zero, returns the empty sequence without reading outside 0..capacity-1 and
\* without aborting.
C3_FreshReadEmpty ==
    [][(/\ ev.op = "create"
        /\ ev.res = "Ok"
        /\ Region(ev.proc) = Zeros(seg[ev.proc].size)
        /\ ev'.proc = ev.proc
        /\ ev'.op = "read")
       => (ev'.res = "Ok" /\ ev'.ret = <<>> /\ ~ev'.oob /\ pc'[ev.proc] = "idle")]_vars

\* C4: when a write(P) returns after modifying the region, no other write is
\* under way and no process has crashed, every byte of the region from index
\* len(P) through capacity-1 is zero.
C4_TailZero ==
    (ev.op = "write" /\ ev.res = "Ok" /\ ~WriteUnderWay /\ NoCrash)
    => \A i \in (Len(ev.data) + 1)..seg[ev.proc].size : mem[seg[ev.proc].obj][i] = 0

\* C5: a named object has at most one creator (a create that succeeded or is
\* past its exclusive shm_open), and a create of a name that exists fails with
\* EEXIST (AlreadyExists), obtains no descriptor and yields no segment.
Creators(o) ==
    {p \in Procs : \/ seg[p].state = "Mapped" /\ seg[p].is_create /\ seg[p].obj = o
                   \/ pc[p] \in {"create_ftruncate", "create_mmap"} /\ arg[p].obj = o}

C5_ExclusiveCreate ==
    /\ \A o \in 1..MaxObj : Cardinality(Creators(o)) <= 1
    /\ (ev.op = "create" /\ ev.existed)
       => /\ ev.res = "EEXIST"
          /\ ev.fd = 0
          /\ pc[ev.proc] = "idle"
          /\ seg[ev.proc].state # "Mapped"
          /\ Cardinality(fds[ev.proc]) = ev.nfds0

C5_Witness ==
    /\ ev.op = "create"
    /\ ev.res = "EEXIST"
    /\ \E q \in Procs \ {ev.proc} : seg[q].state = "Mapped" /\ seg[q].is_create /\ seg[q].name = ev.name

\* C6: once the creator's segment of a name was dropped and no create of that
\* name has succeeded or is under way since, open of that name fails with
\* ENOENT (NotFound).
C6_OpenAfterCreatorDrop ==
    [][(/\ ev'.op = "open"
        /\ ev'.proc \in Procs
        /\ pc[ev'.proc] = "idle"
        /\ ev'.name \in dropped
        /\ ~CreateInProgress(ev'.name))
       => ev'.res = "ENOENT"]_vars

\* C7: name() returns the stored name and leaves the segment unchanged, and a
\* drop frees the name storage exactly once and, for the creator, removes the
\* object of the stored name.
C7_NameNonDestructive ==
    [][/\ (ev'.op = "name" /\ ev'.proc \in Procs /\ seg[ev'.proc].state = "Mapped")
          => (seg' = seg /\ ev'.res = "Ok" /\ ev'.name = seg[ev'.proc].name)
       /\ (ev'.op = "drop" /\ ev'.proc \in Procs /\ seg[ev'.proc].state = "Mapped")
          => /\ ev'.res = "Ok"
             /\ seg[ev'.proc].is_create => ns'[seg[ev'.proc].name] = 0]_vars

\* C8: a create that fails after its shm_open created the object leaves the
\* name absent from the namespace.
C8_CreateRollback ==
    (ev.op = "create" /\ ev.res \in Errors /\ ev.fd # 0) => ns[ev.name] = 0

\* C9: a process that is not inside a call holds exactly one descriptor per
\* Mapped segment, so none once its segment is dropped.
C9_FdsMatchLive ==
    \A p \in Procs : pc[p] = "idle"
        => Cardinality(fds[p]) = (IF seg[p].state = "Mapped" THEN 1 ELSE 0)

\* C10: when create or open returns an error, the descriptor obtained during
\* the call is closed, the process holds as many descriptors as before the
\* call, and no mapping from the call remains.
C10_NoLeakOnError ==
    (ev.op \in {"create", "open"} /\ ev.res \in Errors)
    => /\ ev.fd \notin fds[ev.proc]
       /\ Cardinality(fds[ev.proc]) = ev.nfds0
       /\ seg[ev.proc].state # "Mapped"
       /\ pc[ev.proc] = "idle"

C10_Witness ==
    /\ ev.op \in {"create", "open"}
    /\ ev.res \in {"EINVAL", "ENOMEM"}
    /\ ev.fd # 0
    /\ ev.nfds0 = 1

\* no process has obtained a segment so far: a segment, once obtained, never
\* returns to the Unopened state, so no create has succeeded
NoSegmentYet == \A q \in Procs : seg[q].state = "Unopened"

\* C11: open of a name for which no create has succeeded (and none is under
\* way) fails with ENOENT (NotFound), yields no segment, obtains no descriptor
\* and leaves the namespace unchanged.
C11_OpenAbsentNotFound ==
    [][(/\ ev'.op = "open"
        /\ ev'.proc \in Procs
        /\ pc[ev'.proc] = "idle"
        /\ NoSegmentYet
        /\ ~CreateInProgress(ev'.name))
       => (ev'.res = "ENOENT" /\ ns' = ns /\ seg' = seg /\ fds' = fds /\ pc' = pc)]_vars

\* processes a and b hold segments of one name on one object with one capacity
SameSegment(a, b) ==
    /\ seg[a].state = "Mapped"
    /\ seg[b].state = "Mapped"
    /\ seg[a].name = seg[b].name
    /\ seg[a].obj = seg[b].obj
    /\ seg[a].size = seg[b].size

\* C12: when process A wrote P (len(P) <= capacity) and the next operation on
\* the region is a read() by another process B holding a segment of the same
\* name and capacity, B's read returns P without its trailing zeros.
C12_CrossProcessVisibility ==
    [][(/\ ev.op = "write"
        /\ ev.res \in {"Ok", "Rejected"}
        /\ ev'.op = "read"
        /\ ev'.proc \in Procs \ {ev.proc}
        /\ SameSegment(ev.proc, ev'.proc)
        /\ Backed(ev.proc)
        /\ ~WriteUnderWay
        /\ Len(ev.data) <= seg[ev.proc].size)
       => (ev'.res = "Ok" /\ ~ev'.oob /\ ev'.ret = StripZeros(ev.data))]_vars

\* the step is a drop of process p's Mapped segment
DropStepOf(p) == ev'.op = "drop" /\ ev'.proc = p /\ seg[p].state = "Mapped" /\ seg'[p].state = "Released"

\* C13: a drop of a segment obtained through open leaves the namespace as it
\* is, a drop of the creator's segment removes the name of the segment, and
\* no other step removes a name.
C13_OnlyCreatorRemoves ==
    [][/\ \A p \in Procs :
            DropStepOf(p) => IF seg[p].is_create THEN ns'[seg[p].name] = 0 ELSE ns' = ns
       /\ (\E n \in Names : ns[n] # 0 /\ ns'[n] = 0)
            => \E p \in Procs : DropStepOf(p) /\ seg[p].is_create]_vars

\* process p is inside create or open, past its shm_open
InAcquire(p) == pc[p] \in {"create_ftruncate", "create_mmap", "open_mmap"}

\* C14: every Mapped segment has capacity > 0; a create or open with
\* capacity <= 0 that got past its shm_open returns EINVAL (InvalidArgument)
\* and no segment, and such a create leaves its name absent.
C14_PositiveCapacity ==
    [][/\ \A p \in Procs : seg'[p].state = "Mapped" => seg'[p].size > 0
       /\ \A p \in Procs :
            (InAcquire(p) /\ arg[p].size <= 0 /\ pc'[p] = "idle")
            => /\ ev'.res = "EINVAL"
               /\ seg'[p].state # "Mapped"
               /\ ev'.op = "create" => ns'[arg[p].name] = 0]_vars

\* process q holds a mapping, obtained through open, of the object behind p's segment
OpenerOf(q, p) ==
    /\ q # p
    /\ seg[q].state = "Mapped"
    /\ ~seg[q].is_create
    /\ seg[q].obj = seg[p].obj

\* C15: when the creator's segment is dropped while an opener in another
\* process holds a mapping of the object, the opener's segment and the
\* contents of the object stay as they are and the name is gone from the
\* namespace (a new open of it finds nothing).
C15_UnlinkLifetime ==
    [][\A p, q \in Procs :
         (DropStepOf(p) /\ seg[p].is_create /\ OpenerOf(q, p))
         => /\ seg'[q] = seg[q]
            /\ mem'[seg[q].obj] = mem[seg[q].obj]
            /\ ns'[seg[p].name] = 0]_vars

\* C16: no mutual exclusion: in every state where a write by one process is
\* between its copy and its zero fill, another process holding a segment of
\* the object can run read() and can start a write().
C16_NoMutualExclusion ==
    \A p, q \in Procs :
        (/\ pc[p] = "write_fill"
         /\ q # p
         /\ pc[q] = "idle"
         /\ seg[q].state = "Mapped"
         /\ seg[q].obj = seg[p].obj)
        => /\ ENABLED ReadData(q)
           /\ ENABLED (\E data \in Payloads : WriteCopy(q, data))

\* a read() between the two steps of another process's write returned the
\* payload followed by bytes the write has yet to clear: neither the region
\* the write found nor the payload it writes
C16_Witness ==
    \E p \in Procs :
        /\ pc[p] = "write_fill"
        /\ ev.op = "read"
        /\ ev.res = "Ok"
        /\ ev.proc # p
        /\ SameSegment(p, ev.proc)
        /\ Backed(p)
        /\ Len(arg[p].data) <= seg[p].size
        /\ Len(arg[p].old) = seg[p].size
        /\ Region(p) = arg[p].data \o SubSeq(arg[p].old, Len(arg[p].data) + 1, seg[p].size)
        /\ ev.ret = StripZeros(Region(p))
        /\ ev.ret # StripZeros(arg[p].data)
        /\ ev.ret # StripZeros(arg[p].old)

\* C17: an open that found the name and whose capacity the OS can map
\* returns a segment on the object with the caller's capacity as its size,
\* whatever capacity the object was created with.
C17_OpenNoCapacityCheck ==
    [][\A p \in Procs :
         (pc[p] = "open_mmap" /\ pc'[p] # "open_mmap" /\ MmapResult(arg[p].size) = "Ok")
         => /\ ev'.op = "open"
            /\ ev'.res = "Ok"
            /\ seg'[p].state = "Mapped"
            /\ seg'[p].obj = arg[p].obj
            /\ seg'[p].size = arg[p].size]_vars

\* an open has just returned a segment larger than the creator's on the same object
C17_Witness ==
    /\ ev.op = "open"
    /\ ev.res = "Ok"
    /\ \E q \in Procs \ {ev.proc} :
         /\ seg[q].state = "Mapped"
         /\ seg[q].is_create
         /\ seg[q].obj = seg[ev.proc].obj
         /\ seg[q].size < seg[ev.proc].size

\* the step is the start of a write_data call by process p
WriteCallOf(p) ==
    /\ ev'.op = "write"
    /\ ev'.proc = p
    /\ pc[p] = "idle"
    /\ seg[p].state = "Mapped"
    /\ Backed(p)

\* C18: write_data goes on to copy a payload only when twice its length is at
\* most the size of the segment; a payload longer than half the size and no
\* longer than the size is rejected and no byte changes.
C18_HalfCapacityGuard ==
    [][\A p \in Procs :
         WriteCallOf(p)
         => /\ ev'.res \notin {"Rejected", "Panic"} => 2 * Len(ev'.data) <= seg[p].size
            /\ (2 * Len(ev'.data) > seg[p].size /\ Len(ev'.data) <= seg[p].size)
               => (ev'.res = "Rejected" /\ mem' = mem /\ seg' = seg /\ pc' = pc)]_vars

\* the object behind p's segment with the indices n .. size-n-1 of the region zeroed
FilledMiddle(p, n) ==
    [i \in 1..Len(mem[seg[p].obj]) |->
        IF i > n /\ i <= seg[p].size - n THEN 0 ELSE mem[seg[p].obj][i]]

CreateCallOf(p) == ev'.op = "create" /\ ev'.proc = p /\ pc[p] = "idle"

\* C20: a create of a name whose creator's segment was dropped (no create of
\* the name has succeeded or is under way since) gets past its exclusive
\* shm_open with an object that no segment is mapped on, the object is zero
\* filled when sized, the call returns a segment when the capacity is
\* positive, and a write through a segment changes no other object that a
\* name or a mapping reaches.
C20_NameReuse ==
    [][\A p \in Procs :
         /\ (CreateCallOf(p) /\ ev'.name \in dropped /\ ~CreateInProgress(ev'.name))
            => /\ ev'.res = "pending"
               /\ pc'[p] = "create_ftruncate"
               /\ ns'[ev'.name] = arg'[p].obj
               /\ \A q \in Procs : seg[q].state = "Mapped" => seg[q].obj # arg'[p].obj
         /\ (pc[p] = "create_ftruncate" /\ pc'[p] = "create_mmap")
            => /\ Len(mem'[arg[p].obj]) >= arg[p].size
               /\ \A i \in 1..Len(mem'[arg[p].obj]) : mem'[arg[p].obj][i] = 0
         /\ (pc[p] = "create_mmap" /\ pc'[p] = "idle" /\ arg[p].size > 0)
            => (seg'[p].state = "Mapped" /\ seg'[p].obj = arg[p].obj)
         /\ (ev'.op = "write" /\ ev'.proc = p /\ seg[p].state = "Mapped")
            => \A o \in (1..MaxObj) \ {seg[p].obj} : Reachable(o) => mem'[o] = mem[o]]_vars
====
